---- MODULE Spec2Model ----
(***************************************************************************)
(* Patient service of the patient-app: the in-memory record store, the     *)
(* FHIR synchronisation (syncWithFhir), the reads (getPatients,            *)
(* getPatientById) and the local mutations (createPatient, updatePatient,  *)
(* deletePatient) of src/src/services/authService.ts, lines 102-390, with  *)
(* the FHIR client (searchPatients, getPatientById) of src/unnamed/part_000.*)
(*                                                                         *)
(* Execution is a single-threaded event loop: every action below is the    *)
(* code that runs between two suspension points (await of a registry       *)
(* request, await of the recursive syncWithFhir call).                     *)
(***************************************************************************)
EXTENDS Integers, Sequences, FiniteSets, TLC

VARIABLES
    inMemoryPatients,   \* authService.ts:105  the store, a sequence of Patient
    isInitialSyncDone,  \* authService.ts:108
    isSyncing,          \* authService.ts:109
    now,                \* the clock read by Date.now() / new Date()
    syncs,              \* syncWithFhir call chains suspended at an await
    gets,               \* getPatientById calls suspended at await getFhirPatient(id)
    notes,              \* number of notifyListeners() calls made by the last step
    last,               \* the last step: its operation and its outcome
    lastMerged,         \* history: the page last merged, while the store is unchanged since
    listQ,              \* a paginated getPatients walk (pages 1..n of one filter)
    bus,                \* authService.ts:187  the listeners array and a dispatch over it
    wire,               \* the registry client: stored token, default header, last request
    removed             \* history: the ids deletePatient has removed from the store

vars == <<inMemoryPatients, isInitialSyncDone, isSyncing, now, syncs, gets,
          notes, last>>

----------------------------------------------------------------------------
(* Bounds of the model *)

\* limit argument of syncWithFhir (50 in the source), scaled down
PageLimit == 2
\* the clock runs over 0..MaxClock
MaxClock == 1
\* createPatient and the getPatientById fallback append while the store is shorter
MaxStore == 2
\* getPatientById registry requests outstanding at once
MaxGets == 1
\* longest store of a paginated walk, and its largest limit
MaxListLen == 3
MaxLimit == 2
\* largest page number a single getPatients call asks for
MaxQueryPage == 2
\* longest listeners array
MaxListeners == 3
\* number of unsubscribe closures handed out and followed
MaxClosures == 3

(* Program constants *)

\* authService.ts:117  "Only fetch first 10 pages"
MaxPage == 10

----------------------------------------------------------------------------
(* Values *)

Has(r, f) == f \in DOMAIN r

\* `local-${Date.now()}`
LocalId(t) == "local-" \o ToString(t)

\* r overlaid with u: { ...r, ...u }
Spread(r, u) ==
    [f \in (DOMAIN r) \cup (DOMAIN u) |-> IF f \in DOMAIN u THEN u[f] ELSE r[f]]

\* Raw registry resources (FhirPatient); every field is optional.  Names are
\* sequences of characters.  An entry without a resource is undefined.
Undefined == [undefined |-> TRUE]
IsUndefined(raw) == Has(raw, "undefined")

FhirP1 == [id |-> "p1", given |-> <<"A", "b">>, family |-> <<"B">>,
           gender |-> "female", birthDate |-> "1990-01-01", lastUpdated |-> 0]
FhirP2 == [id |-> "p2", gender |-> "unknown"]
FhirNoId == [given |-> <<"a">>, gender |-> "male"]

RawRecords == {FhirP1, FhirNoId, Undefined}

RECURSIVE SeqsUpTo(_, _)
SeqsUpTo(S, n) ==
    IF n = 0 THEN {<<>>}
    ELSE LET shorter == SeqsUpTo(S, n - 1)
         IN  shorter \cup {Append(s, x) : s \in {q \in shorter : Len(q) = n - 1}, x \in S}

\* What a registry search request can come back with: a transport or server
\* failure, or a bundle of at most PageLimit entries (_count = pageSize).
SearchResponses ==
    {[ok |-> FALSE, entries |-> <<>>]}
    \cup {[ok |-> TRUE, entries |-> e] : e \in SeqsUpTo(RawRecords, PageLimit)}

\* Ids callers pass to getPatientById, updatePatient and deletePatient
CallerIds == {"p1", "missing", LocalId(0)}

----------------------------------------------------------------------------
(* Remote registry client, src/unnamed/part_000 *)

\* searchPatients: the entries' resources, or [] when the request fails
\* (the catch block returns { patients: [], total: 0 }).
searchPatients(resp) == IF resp.ok THEN resp.entries ELSE <<>>

----------------------------------------------------------------------------
(* Normalisation and merge, syncWithFhir lines 130-148 *)

\* fhirPatients.map(patient => ({...})) at clock t; patient.id of an undefined
\* entry throws, which MapThrows tells.
mapFhirPatient(patient, t) ==
    Spread(
      [id          |-> IF Has(patient, "id") THEN patient.id ELSE LocalId(t),
       firstName   |-> IF Has(patient, "given") THEN patient.given ELSE <<>>,
       lastName    |-> IF Has(patient, "family") THEN patient.family ELSE <<>>,
       gender      |-> IF Has(patient, "gender") THEN patient.gender ELSE "other",
       dateOfBirth |-> IF Has(patient, "birthDate") THEN patient.birthDate ELSE "",
       phoneNumber |-> IF Has(patient, "phone") THEN patient.phone ELSE "",
       createdAt   |-> IF Has(patient, "lastUpdated") THEN patient.lastUpdated ELSE t],
      IF Has(patient, "email") THEN [email |-> patient.email] ELSE [x \in {} |-> 0])

\* Mutant: an undefined entry is mapped like an empty resource
MapThrowsNever(fhirPatients) == FALSE

MapThrows(fhirPatients) ==
    \E i \in 1..Len(fhirPatients) : IsUndefined(fhirPatients[i])

MapPatients(fhirPatients, t) ==
    [i \in 1..Len(fhirPatients) |-> mapFhirPatient(fhirPatients[i], t)]

\* inMemoryPatients.some(p => p.id === id)
HasId(store, id) == \E i \in 1..Len(store) : store[i].id = id

\* Mutant: the merge overwrites a stored record of the same id (an upsert)
PushOrReplace(store, patient) ==
    IF HasId(store, patient.id)
    THEN [i \in 1..Len(store) |-> IF store[i].id = patient.id THEN patient ELSE store[i]]
    ELSE Append(store, patient)

\* One iteration of newPatients.forEach: push unless the id is already stored
\* Mutant: a merge that puts a fresh record in front of the store
PushInFront(store, patient) ==
    IF HasId(store, patient.id) THEN store ELSE <<patient>> \o store

PushIfNew(store, patient) ==
    IF HasId(store, patient.id) THEN store ELSE Append(store, patient)

\* Mutant: the store becomes the fetched page
mergeReplacingStore(store, newPatients) == newPatients

RECURSIVE mergeNewPatients(_, _)
mergeNewPatients(store, newPatients) ==
    IF newPatients = <<>> THEN store
    ELSE mergeNewPatients(PushIfNew(store, Head(newPatients)), Tail(newPatients))

\* Mutant: any page with records counts as full
FullPageAnyRecords(fhirPatients) == Len(fhirPatients) >= 1

\* if (fhirPatients.length === limit)
FullPage(fhirPatients) == Len(fhirPatients) = PageLimit

----------------------------------------------------------------------------
(* syncWithFhir, entry: lines 112-125 *)

\* Mutant: the guard never drops a call
GuardNever(syncing) == FALSE

\* if (isSyncing) return;
Guard(syncing) == syncing

\* Mutant: the depth check is off by one
DepthOffByOne(page) == page > MaxPage + 1

\* if (page > 10)
DepthExceeded(page) == page > MaxPage

\* Mutant: the prologue without its guard line
EntryWithoutGuard(syncing, page) ==
    IF DepthExceeded(page) THEN "depth" ELSE "started"

\* How an invocation of syncWithFhir(page, limit, isInitial) leaves its
\* synchronous prologue: dropped by the guard, returned by the depth check,
\* or started (isSyncing = true, search request issued).
syncWithFhirEntry(syncing, page) ==
    IF Guard(syncing) THEN "guard"
    ELSE IF DepthExceeded(page) THEN "depth"
    ELSE "started"

\* Mutant: isSyncing = false at the end of the try block, not in a finally
ReleaseUnlessThrown(threw) == threw

\* finally { isSyncing = false }: the value of isSyncing when a frame ends,
\* whether its try block threw or not
FinallyRelease(threw) == FALSE

\* Mutant: every pass runs as an initial one (the default of the parameter)
NewChainInitial(page, isInitial) ==
    [isInitial |-> TRUE, frames |-> <<[page |-> page, pc |-> "search"]>>]

NewChain(page, isInitial) ==
    [isInitial |-> isInitial, frames |-> <<[page |-> page, pc |-> "search"]>>]

\* The frame on top of chain c ends: its promise resolves, so the frame that
\* awaits it (if any) is ready to resume; a chain without frames is over.
PopFrame(chains, c) ==
    LET fr == chains[c].frames
        n  == Len(fr)
    IN  IF n = 1
        THEN [i \in 1..(Len(chains) - 1) |-> IF i < c THEN chains[i] ELSE chains[i + 1]]
        ELSE [chains EXCEPT ![c].frames =
                 [i \in 1..(n - 1) |-> IF i = n - 1 THEN [fr[i] EXCEPT !.pc = "resume"]
                                       ELSE fr[i]]]

\* The top frame of chain c is suspended at pc
TopAt(c, pc) ==
    /\ c \in 1..Len(syncs)
    /\ syncs[c].frames[Len(syncs[c].frames)].pc = pc

TopPage(c) == syncs[c].frames[Len(syncs[c].frames)].page

\* Search requests outstanding
Outstanding ==
    {<<c, i>> \in (1..Len(syncs)) \X (1..MaxPage + 1) :
        i <= Len(syncs[c].frames) /\ syncs[c].frames[i].pc = "search"}

----------------------------------------------------------------------------
(* The record of the last step *)

NoStep == [op |-> "init", call |-> "none", result |-> ""]

NothingMerged == [valid |-> FALSE, entries |-> <<>>]

NoWalk ==
    [active |-> FALSE, filters |-> [name |-> <<>>, gender |-> "", birthDate |-> ""],
     limit |-> 0, page |-> 0, acc |-> <<>>, total |-> 0]

\* No token stored, no default header, no setAuthToken call and no request yet
NoTraffic ==
    [stored |-> "", header |-> "", armed |-> "unset", op |-> "init", sent |-> "",
     result |-> [raised |-> FALSE]]

\* const listeners = [] (line 187), no notifyListeners() running
NoListeners ==
    [listeners |-> <<>>, running |-> FALSE, k |-> 0, len |-> 0,
     atStart |-> {}, called |-> {}, removed |-> {}, handed |-> <<>>]

----------------------------------------------------------------------------
(* getPatients, lines 224-279: filtering and pagination *)

ToLower(ch) == IF ch = "A" THEN "a" ELSE IF ch = "B" THEN "b" ELSE ch

LowerCase(str) == [i \in 1..Len(str) |-> ToLower(str[i])]

\* hay.includes(needle)
Includes(hay, needle) ==
    \E i \in 0..(Len(hay) - Len(needle)) : SubSeq(hay, i + 1, i + Len(needle)) = needle

\* `${patient.firstName} ${patient.lastName}`.toLowerCase().includes(searchTerm)
NameMatches(patient, name) ==
    Includes(LowerCase(patient.firstName \o <<" ">> \o patient.lastName), LowerCase(name))

\* The createdAfter predicate: a patient without createdAt passes
CreatedAfterMatches(patient, createdAfter) ==
    IF ~Has(patient, "createdAt") THEN TRUE ELSE patient.createdAt >= createdAfter

\* A filter field is applied when it is present and truthy
NameGiven(filters) == Has(filters, "name") /\ filters.name # <<>>
GenderGiven(filters) == Has(filters, "gender") /\ filters.gender # ""
BirthDateGiven(filters) == Has(filters, "birthDate") /\ filters.birthDate # ""
CreatedAfterGiven(filters) == Has(filters, "createdAfter")

Passes(patient, filters) ==
    /\ NameGiven(filters) => NameMatches(patient, filters.name)
    /\ GenderGiven(filters) => patient.gender = filters.gender
    /\ BirthDateGiven(filters) => patient.dateOfBirth = filters.birthDate
    /\ CreatedAfterGiven(filters) => CreatedAfterMatches(patient, filters.createdAfter)

\* The successive result.filter(...) calls keep the store's order
ApplyFilters(store, filters) ==
    LET Test(patient) == Passes(patient, filters)
    IN  SelectSeq(store, Test)

\* Array.prototype.slice(start, end): negative indices count from the end
JsSlice(arr, start, end) ==
    LET n == Len(arr)
        Rel(k) == IF k < 0 THEN (IF n + k < 0 THEN 0 ELSE n + k)
                  ELSE (IF k > n THEN n ELSE k)
    IN  SubSeq(arr, Rel(start) + 1, Rel(end))

\* Mutant: pages counted from 0
SliceStartFromZero(page, limit) == page * limit

\* start = (page - 1) * limit
SliceStart(page, limit) == (page - 1) * limit

\* if (filters?.page && filters?.limit)
Paginated(filters) ==
    /\ Has(filters, "page") /\ filters.page # 0
    /\ Has(filters, "limit") /\ filters.limit # 0

\* First load: if (!isInitialSyncDone && inMemoryPatients.length === 0)
FirstLoad(store, done) == ~done /\ store = <<>>

\* Mutant: the total taken after the slice
getPatientsResultTotalAfter(store, done, filters) ==
    IF FirstLoad(store, done) THEN [patients |-> <<>>, total |-> Len(store)]
    ELSE LET result == ApplyFilters(store, filters)
             start  == SliceStart(filters.page, filters.limit)
             paged  == IF Paginated(filters)
                       THEN JsSlice(result, start, start + filters.limit)
                       ELSE result
         IN  [patients |-> paged, total |-> Len(paged)]

\* The value getPatients(filters) resolves to
getPatientsResult(store, done, filters) ==
    IF FirstLoad(store, done) THEN [patients |-> <<>>, total |-> Len(store)]
    ELSE LET result == ApplyFilters(store, filters)
             start  == SliceStart(filters.page, filters.limit)
         IN  [patients |-> IF Paginated(filters)
                           THEN JsSlice(result, start, start + filters.limit)
                           ELSE result,
              total    |-> Len(result)]

----------------------------------------------------------------------------
(* getPatientById / createPatient / updatePatient: the records they build *)

\* Mutant: the fetched record always gets a local id
mapFhirByIdFreshId(fhirPatient, t) ==
    [id |-> LocalId(t), firstName |-> <<>>, lastName |-> <<>>, gender |-> "other",
     dateOfBirth |-> "", phoneNumber |-> ""]

\* getPatientById lines 289-298: no createdAt
mapFhirById(fhirPatient, t) ==
    Spread(
      [id          |-> IF Has(fhirPatient, "id") THEN fhirPatient.id ELSE LocalId(t),
       firstName   |-> IF Has(fhirPatient, "given") THEN fhirPatient.given ELSE <<>>,
       lastName    |-> IF Has(fhirPatient, "family") THEN fhirPatient.family ELSE <<>>,
       gender      |-> IF Has(fhirPatient, "gender") THEN fhirPatient.gender ELSE "other",
       dateOfBirth |-> IF Has(fhirPatient, "birthDate") THEN fhirPatient.birthDate ELSE "",
       phoneNumber |-> IF Has(fhirPatient, "phone") THEN fhirPatient.phone ELSE ""],
      IF Has(fhirPatient, "email") THEN [email |-> fhirPatient.email] ELSE [x \in {} |-> 0])

\* What getFhirPatient(id) can resolve to: null (failure, 404), or the
\* registry's resource of that id
NullResponse == [null |-> TRUE]
GetResponses(id) ==
    {NullResponse} \cup {raw \in {FhirP1, FhirP2} : raw.id = id}

\* createPatient lines 313-317
PatientData ==
    [firstName |-> <<"a">>, lastName |-> <<"B">>, gender |-> "male",
     dateOfBirth |-> "", phoneNumber |-> ""]

newPatient(patientData, t) == Spread(patientData, [id |-> LocalId(t), createdAt |-> t])

\* updatePatient: findIndex (1-based here, 0 for -1) and lines 341-351
FindIndex(store, id) ==
    IF HasId(store, id)
    THEN CHOOSE i \in 1..Len(store) :
            /\ store[i].id = id
            /\ \A j \in 1..(i - 1) : store[j].id # id
    ELSE 0

\* Partial<Patient> payloads; the one here also carries an id
Updates == {[id |-> "p2", firstName |-> <<"B">>]}

\* Mutant: the overlay without the trailing id
updatedPatientOverwritingId(patient, updates, id) == Spread(patient, updates)

updatedPatient(patient, updates, id) == Spread(Spread(patient, updates), [id |-> id])

ReplaceAt(store, i, patient) == [store EXCEPT ![i] = patient]

\* What updatePatient reports to its caller: the Error('Patient not found')
\* of line 338 is thrown inside the try block, so the catch of lines 359-362
\* replaces it by Error('Failed to update patient')
ThrownInUpdate == "Patient not found"
updateOutcome(patientIndex) ==
    IF patientIndex = 0 THEN "Failed to update patient" ELSE "ok"

\* Mutant: a delete that drops the first record when the id is absent
RemoveIdOrFirst(store, id) ==
    LET Keep(patient) == patient.id # id
    IN  IF \E i \in 1..Len(store) : store[i].id = id THEN SelectSeq(store, Keep)
        ELSE IF store = <<>> THEN store ELSE Tail(store)

\* deletePatient line 367
RemoveId(store, id) ==
    LET Keep(patient) == patient.id # id
    IN  SelectSeq(store, Keep)

\* Mutant: a delete that throws for an id it does not find
deleteOutcomeNotFound(store, id) ==
    IF \E i \in 1..Len(store) : store[i].id = id THEN "ok" ELSE "Patient not found"

\* What deletePatient reports to its caller: nothing in its try block
\* (lines 366-372) throws, whether or not a record has the id
deleteOutcome(store, id) == "ok"

----------------------------------------------------------------------------
(* State after module load: the startup call syncWithFhir(1, 50, true) of   *)
(* line 175 has run up to its await, the timer of line 179 is armed.        *)

StartupCall == syncWithFhirEntry(FALSE, 1)

Init ==
    /\ inMemoryPatients = <<>>
    /\ isInitialSyncDone = FALSE
    /\ isSyncing = (StartupCall = "started")
    /\ now = 0
    /\ syncs = IF StartupCall = "started" THEN <<NewChain(1, TRUE)>> ELSE <<>>
    /\ gets = <<>>
    /\ notes = 0
    /\ last = [NoStep EXCEPT !.op = "startup", !.call = StartupCall]
    /\ lastMerged = NothingMerged
    /\ removed = {}
    /\ listQ = NoWalk
    /\ bus = NoListeners
    /\ wire = NoTraffic

\* The effect of an invocation syncWithFhir(page, 50, isInitial) made by a
\* step that has itself fired n notifications: lines 112-128.
Invoke(page, isInitial, n) ==
    LET call == syncWithFhirEntry(isSyncing, page)
    IN  /\ isSyncing' = IF call = "started" THEN TRUE ELSE isSyncing
        /\ isInitialSyncDone' =
               IF call = "depth" /\ isInitial THEN TRUE ELSE isInitialSyncDone
        /\ notes' = IF call = "depth" /\ isInitial THEN n + 1 ELSE n
        /\ syncs' = IF call = "started" THEN Append(syncs, NewChain(page, isInitial))
                    ELSE syncs

\* Time passes
Tick ==
    /\ now < MaxClock
    /\ now' = now + 1
    /\ notes' = 0
    /\ last' = [NoStep EXCEPT !.op = "tick"]
    /\ UNCHANGED <<inMemoryPatients, isInitialSyncDone, isSyncing, syncs, gets>>

\* setInterval callback, lines 179-183
Timer ==
    /\ IF isInitialSyncDone
       THEN /\ Invoke(1, FALSE, 0)
            /\ last' = [NoStep EXCEPT !.op = "timer",
                                      !.call = syncWithFhirEntry(isSyncing, 1)]
       ELSE /\ notes' = 0
            /\ last' = [NoStep EXCEPT !.op = "timer"]
            /\ UNCHANGED <<isInitialSyncDone, isSyncing, syncs>>
    /\ UNCHANGED <<inMemoryPatients, now, gets>>

\* The part of getPatients that changes state, lines 227-230: the on-demand
\* pass of a first load
getPatientsTrigger(op) ==
    IF FirstLoad(inMemoryPatients, isInitialSyncDone) /\ ~isSyncing
    THEN /\ Invoke(1, TRUE, 0)
         /\ last' = [NoStep EXCEPT !.op = op,
                                   !.call = syncWithFhirEntry(isSyncing, 1)]
    ELSE /\ notes' = 0
         /\ last' = [NoStep EXCEPT !.op = op]
         /\ UNCHANGED <<isInitialSyncDone, isSyncing, syncs>>

\* getPatients(filters), lines 224-279
getPatients ==
    /\ getPatientsTrigger("getPatients")
    /\ UNCHANGED <<inMemoryPatients, now, gets>>

\* The continuation of syncWithFhir after await searchPatients, lines 128-170,
\* up to the await of the recursive call or to the end of the frame
SearchResponse(c, resp) ==
    /\ TopAt(c, "search")
    /\ LET isInitial    == syncs[c].isInitial
           page         == TopPage(c)
           fhirPatients == searchPatients(resp)
           nonEmpty     == fhirPatients # <<>>
           threw        == nonEmpty /\ MapThrows(fhirPatients)
           merges       == nonEmpty /\ ~threw
           store2       == IF merges
                           THEN mergeNewPatients(inMemoryPatients,
                                                 MapPatients(fhirPatients, now))
                           ELSE inMemoryPatients
           recurse      == merges /\ FullPage(fhirPatients)
           call         == IF recurse THEN syncWithFhirEntry(isSyncing, page + 1)
                           ELSE "none"
           n            == Len(syncs[c].frames)
       IN  /\ inMemoryPatients' = store2
           /\ last' = [NoStep EXCEPT !.op = "searchResponse", !.call = call,
                          !.result = IF threw THEN "threw"
                                     ELSE IF recurse THEN "full"
                                     ELSE IF merges THEN "merged" ELSE "empty"]
           /\ IF recurse
              THEN \* await syncWithFhir(page + 1, limit, isInitial)
                   /\ isSyncing' = IF call = "started" THEN TRUE ELSE isSyncing
                   /\ isInitialSyncDone' =
                          IF call = "depth" /\ isInitial THEN TRUE ELSE isInitialSyncDone
                   /\ notes' = IF call = "depth" /\ isInitial THEN 1 ELSE 0
                   /\ syncs' =
                          IF call = "started"
                          THEN [syncs EXCEPT ![c].frames =
                                   Append([@ EXCEPT ![n].pc = "child"],
                                          [page |-> page + 1, pc |-> "search"])]
                          ELSE [syncs EXCEPT ![c].frames[n].pc = "resume"]
              ELSE \* lines 153-170 without the recursion: the frame ends
                   /\ isInitialSyncDone' = (isInitialSyncDone \/ isInitial)
                   /\ notes' = IF threw /\ ~isInitial THEN 0 ELSE 1
                   /\ isSyncing' = FinallyRelease(threw)
                   /\ syncs' = PopFrame(syncs, c)
    /\ UNCHANGED <<now, gets>>

\* The continuation after await syncWithFhir(page + 1, ...), lines 152-170:
\* notifyListeners(), then the finally block
Resume(c) ==
    /\ TopAt(c, "resume")
    /\ notes' = 1
    /\ isSyncing' = FinallyRelease(FALSE)
    /\ syncs' = PopFrame(syncs, c)
    /\ last' = [NoStep EXCEPT !.op = "resume"]
    /\ UNCHANGED <<inMemoryPatients, isInitialSyncDone, now, gets>>

----------------------------------------------------------------------------
(* getPatientById, lines 281-309 *)

\* Up to the return of the local record or to await getFhirPatient(id)
getPatientById(id) ==
    /\ IF HasId(inMemoryPatients, id)
       THEN /\ gets' = gets
            /\ last' = [NoStep EXCEPT !.op = "getPatientById", !.result = "local"]
       ELSE /\ Len(gets) < MaxGets
            /\ gets' = Append(gets, id)
            /\ last' = [NoStep EXCEPT !.op = "getPatientById", !.result = "fetching"]
    /\ notes' = 0
    /\ UNCHANGED <<inMemoryPatients, isInitialSyncDone, isSyncing, now, syncs>>

RemoveAt(seq, i) == [j \in 1..(Len(seq) - 1) |-> IF j < i THEN seq[j] ELSE seq[j + 1]]

\* The continuation after await getFhirPatient(id), lines 287-304
GetFhirResponse(g, fhirPatient) ==
    /\ g \in 1..Len(gets)
    /\ fhirPatient \in GetResponses(gets[g])
    /\ gets' = RemoveAt(gets, g)
    /\ IF fhirPatient = NullResponse
       THEN /\ inMemoryPatients' = inMemoryPatients
            /\ notes' = 0
            /\ last' = [NoStep EXCEPT !.op = "getFhirResponse",
                                      !.result = "null"]
       ELSE /\ Len(inMemoryPatients) < MaxStore
            /\ inMemoryPatients' = Append(inMemoryPatients, mapFhirById(fhirPatient, now))
            /\ notes' = 1
            /\ last' = [NoStep EXCEPT !.op = "getFhirResponse",
                                      !.result = "added"]
    /\ UNCHANGED <<isInitialSyncDone, isSyncing, now, syncs>>

----------------------------------------------------------------------------
(* createPatient, updatePatient, deletePatient: lines 311-376 *)

\* The catch blocks of the three mutations (lines 328-331, 359-362, 373-375):
\* whatever is thrown inside the try block, an exception of a subscriber
\* called by notifyListeners() included, is replaced by a generic failure.
\* raises tells whether a subscriber raises during the notification.
Reported(outcome, raises, message) == IF raises THEN message ELSE outcome

createPatientNotifying(patientData, raises) ==
    /\ Len(inMemoryPatients) < MaxStore
    /\ inMemoryPatients' = Append(inMemoryPatients, newPatient(patientData, now))
    /\ notes' = 1
    /\ last' = [NoStep EXCEPT !.op = "createPatient",
                              !.result = Reported("ok", raises, "Failed to create patient")]
    /\ UNCHANGED <<isInitialSyncDone, isSyncing, now, syncs, gets>>

\* createPatient with subscribers that return normally
createPatient(patientData) == createPatientNotifying(patientData, FALSE)

updatePatientNotifying(id, updates, raises) ==
    /\ LET patientIndex == FindIndex(inMemoryPatients, id)
       IN  IF patientIndex = 0
           THEN \* throw new Error('Patient not found'), rethrown by the catch block
                /\ inMemoryPatients' = inMemoryPatients
                /\ notes' = 0
                /\ last' = [NoStep EXCEPT !.op = "updatePatient",
                                          !.result = updateOutcome(patientIndex)]
           ELSE /\ inMemoryPatients' =
                      ReplaceAt(inMemoryPatients, patientIndex,
                                updatedPatient(inMemoryPatients[patientIndex], updates, id))
                /\ notes' = 1
                /\ last' = [NoStep EXCEPT !.op = "updatePatient",
                                          !.result = Reported(updateOutcome(patientIndex),
                                                raises, "Failed to update patient")]
    /\ UNCHANGED <<isInitialSyncDone, isSyncing, now, syncs, gets>>

\* updatePatient with subscribers that return normally
updatePatient(id, updates) == updatePatientNotifying(id, updates, FALSE)

deletePatientNotifying(id, raises) ==
    /\ inMemoryPatients' = RemoveId(inMemoryPatients, id)
    /\ notes' = 1
    /\ last' = [NoStep EXCEPT !.op = "deletePatient",
                              !.result = Reported(deleteOutcome(inMemoryPatients, id),
                                                  raises, "Failed to delete patient")]
    /\ UNCHANGED <<isInitialSyncDone, isSyncing, now, syncs, gets>>

\* deletePatient with subscribers that return normally
deletePatient(id) == deletePatientNotifying(id, FALSE)

----------------------------------------------------------------------------
(* The program: the event loop runs one handler or continuation at a time *)

\* The history variable and the list walk stay as they are
Frame == UNCHANGED <<lastMerged, listQ, bus, wire, removed>>

SyncStep ==
    \E c \in 1..Len(syncs), resp \in SearchResponses : SearchResponse(c, resp)

ResumeStep == \E c \in 1..Len(syncs) : Resume(c)

Next ==
    \/ Tick /\ Frame
    \/ Timer /\ Frame
    \/ getPatients /\ Frame
    \/ SyncStep /\ Frame
    \/ ResumeStep /\ Frame
    \/ \E id \in CallerIds : getPatientById(id) /\ Frame
    \/ \E g \in 1..Len(gets), raw \in RawRecords \cup {NullResponse} :
          GetFhirResponse(g, raw) /\ Frame
    \/ createPatient(PatientData) /\ Frame
    \/ \E id \in CallerIds, updates \in Updates : updatePatient(id, updates) /\ Frame
    \/ \E id \in CallerIds : deletePatient(id) /\ Frame

Spec == Init /\ [][Next]_vars

\* The same program under the fairness its scheduling gives: every registry
\* search request returns or fails, a resolved await is resumed, and the
\* interval timer keeps firing.
FairSpec ==
    /\ Spec
    /\ WF_vars(SyncStep /\ Frame)
    /\ WF_vars(ResumeStep /\ Frame)
    /\ WF_vars(Timer /\ Frame)

\* The same program with the history variable lastMerged kept: the page a
\* sync pass merged, for as long as no other step changes the store.
MergedPage(resp) ==
    LET fhirPatients == searchPatients(resp)
    IN  IF fhirPatients # <<>> /\ ~MapThrows(fhirPatients)
        THEN [valid |-> TRUE, entries |-> fhirPatients]
        ELSE lastMerged

Track ==
    /\ lastMerged' = IF inMemoryPatients' = inMemoryPatients THEN lastMerged
                     ELSE NothingMerged
    /\ UNCHANGED <<listQ, bus, wire, removed>>

NextTracked ==
    \/ Tick /\ Track
    \/ Timer /\ Track
    \/ getPatients /\ Track
    \/ \E c \in 1..Len(syncs), resp \in SearchResponses :
          SearchResponse(c, resp) /\ lastMerged' = MergedPage(resp)
          /\ UNCHANGED <<listQ, bus, wire, removed>>
    \/ ResumeStep /\ Track
    \/ \E id \in CallerIds : getPatientById(id) /\ Track
    \/ \E g \in 1..Len(gets), raw \in RawRecords \cup {NullResponse} :
          GetFhirResponse(g, raw) /\ Track
    \/ createPatient(PatientData) /\ Track
    \/ \E id \in CallerIds, updates \in Updates : updatePatient(id, updates) /\ Track
    \/ \E id \in CallerIds : deletePatient(id) /\ Track

SpecTracked == Init /\ [][NextTracked]_vars

\* syncWithFhir is private to the module and the program calls it with
\* page = 1 only; SpecUnit adds direct calls syncWithFhir(page, 50, isInitial)
\* with any page up to MaxPage + 1, as a unit test of it would make.
CallSync(page, isInitial) ==
    /\ Invoke(page, isInitial, 0)
    /\ last' = [NoStep EXCEPT !.op = "syncWithFhir",
                              !.call = syncWithFhirEntry(isSyncing, page)]
    /\ UNCHANGED <<inMemoryPatients, now, gets>>

NextUnit ==
    \/ \E page \in 1..(MaxPage + 1), isInitial \in BOOLEAN :
          CallSync(page, isInitial) /\ Frame
    \/ SyncStep /\ Frame
    \/ ResumeStep /\ Frame
    \/ Tick /\ Frame

SpecUnit == Init /\ [][NextUnit]_vars

----------------------------------------------------------------------------
(* A paginated walk: getPatients({...filters, page, limit}) for page 1, 2, ... *)
(* over a store that no other operation changes in between                    *)

\* Records as the program builds them: synced, fetched by id, created
ListRecords ==
    {mapFhirPatient(FhirP1, 0), mapFhirPatient(FhirP2, 1), mapFhirById(FhirP1, 0),
     newPatient(PatientData, 1)}

ListStores == SeqsUpTo(ListRecords, MaxListLen)

\* An empty name, gender or birthDate is falsy, as an absent one is
ListFilters ==
    LET Base == {[name |-> n, gender |-> g, birthDate |-> b] :
                    n \in {<<>>, <<"A">>, <<"b">>}, g \in {"", "female"},
                    b \in {"", "1990-01-01"}}
    IN  Base \cup {Spread(f, [createdAfter |-> 1]) : f \in Base}

\* ceil(total / limit)
Ceil(total, limit) == (total + limit - 1) \div limit

InitList ==
    /\ inMemoryPatients \in ListStores
    /\ isInitialSyncDone \in BOOLEAN
    /\ isSyncing = FALSE
    /\ now = 0
    /\ syncs = <<>>
    /\ gets = <<>>
    /\ notes = 0
    /\ last = NoStep
    /\ lastMerged = NothingMerged
    /\ removed = {}
    /\ bus = NoListeners
    /\ wire = NoTraffic
    /\ listQ \in {[active |-> TRUE, filters |-> f, limit |-> l, page |-> 1,
                   acc |-> <<>>, total |-> 0] : f \in ListFilters, l \in 1..MaxLimit}

\* The next page of the walk: one call of getPatients
ListPage ==
    /\ listQ.active
    /\ listQ.page = 1 \/ listQ.page <= Ceil(listQ.total, listQ.limit)
    /\ LET res == getPatientsResult(inMemoryPatients, isInitialSyncDone,
                      Spread(listQ.filters, [page |-> listQ.page, limit |-> listQ.limit]))
       IN  listQ' = [listQ EXCEPT !.page = @ + 1, !.acc = @ \o res.patients,
                                  !.total = res.total]
    /\ getPatientsTrigger("getPatients")
    /\ UNCHANGED <<inMemoryPatients, now, gets, lastMerged, bus, wire, removed>>

NextList == ListPage

SpecList == InitList /\ [][NextList]_vars

\* The walk has fetched pages 1..ceil(total / limit)
WalkDone ==
    /\ listQ.active
    /\ listQ.page > 1
    /\ listQ.page > Ceil(listQ.total, listQ.limit)

----------------------------------------------------------------------------
(* A single call getPatients({...filters, page, limit}) with any page and   *)
(* limit, a falsy 0 included, over a store of records the program builds.   *)
(* listQ holds the arguments of the call and, once made, its result.        *)

InitQuery ==
    /\ inMemoryPatients \in ListStores
    /\ isInitialSyncDone \in BOOLEAN
    /\ isSyncing = FALSE
    /\ now = 0
    /\ syncs = <<>>
    /\ gets = <<>>
    /\ notes = 0
    /\ last = NoStep
    /\ lastMerged = NothingMerged
    /\ removed = {}
    /\ bus = NoListeners
    /\ wire = NoTraffic
    /\ listQ \in {[active |-> FALSE, filters |-> f, limit |-> l, page |-> p,
                   acc |-> <<>>, total |-> 0] :
                      f \in ListFilters, l \in 0..MaxLimit, p \in 0..MaxQueryPage}

getPatientsCall ==
    /\ ~listQ.active
    /\ LET res == getPatientsResult(inMemoryPatients, isInitialSyncDone,
                      Spread(listQ.filters, [page |-> listQ.page, limit |-> listQ.limit]))
       IN  listQ' = [listQ EXCEPT !.active = TRUE, !.acc = res.patients,
                                  !.total = res.total]
    /\ getPatientsTrigger("getPatients")
    /\ UNCHANGED <<inMemoryPatients, now, gets, lastMerged, bus, wire, removed>>

NextQuery == getPatientsCall

SpecQuery == InitQuery /\ [][NextQuery]_vars

----------------------------------------------------------------------------
(* The event emitter, lines 186-200: the listeners array, subscribeToUpdates *)
(* with the unsubscribe closure it returns, and notifyListeners, whose       *)
(* forEach visits index k = 0, 1, ... below the length the array had when    *)
(* the dispatch began, skipping an index the array no longer has.            *)

Callbacks == {"a", "b", "c"}

Range(seq) == {seq[i] : i \in 1..Len(seq)}

\* listeners.indexOf(callback), 1-based here and 0 for -1
IndexOf(listeners, callback) ==
    IF callback \in Range(listeners)
    THEN CHOOSE i \in 1..Len(listeners) :
            /\ listeners[i] = callback
            /\ \A j \in 1..(i - 1) : listeners[j] # callback
    ELSE 0

\* The closure returned by subscribeToUpdates(callback), lines 195-198:
\* if (index > -1) listeners.splice(index, 1)
Unsubscribed(listeners, callback) ==
    LET index == IndexOf(listeners, callback)
    IN  IF index > 0 THEN RemoveAt(listeners, index) ELSE listeners

\* The closures of the callbacks in order, each applied once
RECURSIVE UnsubscribedAll(_, _)
UnsubscribedAll(listeners, order) ==
    IF order = <<>> THEN listeners
    ELSE UnsubscribedAll(Unsubscribed(listeners, Head(order)), Tail(order))

\* What a callback may do besides re-reading the store: call the closures
\* of some callbacks, its own included
Bodies == {<<>>} \cup {<<x>> : x \in Callbacks}
             \cup {<<x, y>> : x \in Callbacks, y \in Callbacks}

Rest == UNCHANGED <<vars, lastMerged, listQ, wire, removed>>

subscribeToUpdates(callback) ==
    /\ ~bus.running
    /\ Len(bus.listeners) < MaxListeners
    /\ bus' = [bus EXCEPT !.listeners = Append(@, callback)]
    /\ Rest

unsubscribe(callback) ==
    /\ ~bus.running
    /\ callback \in Range(bus.listeners)
    /\ bus' = [bus EXCEPT !.listeners = Unsubscribed(@, callback)]
    /\ Rest

\* notifyListeners() is called: listeners.forEach begins
notifyListeners ==
    /\ ~bus.running
    /\ bus' = [bus EXCEPT !.running = TRUE, !.k = 0, !.len = Len(bus.listeners),
                          !.atStart = Range(bus.listeners),
                          !.called = {}, !.removed = {}]
    /\ Rest

\* One iteration of forEach: listener() for the element at index k, if any
forEachStep(body) ==
    /\ bus.running
    /\ bus.k < bus.len
    /\ IF bus.k < Len(bus.listeners)
       THEN bus' = [bus EXCEPT
                      !.k = @ + 1,
                      !.called = @ \cup {bus.listeners[bus.k + 1]},
                      !.removed = @ \cup (Range(body) \cap Range(bus.listeners)),
                      !.listeners = UnsubscribedAll(@, body)]
       ELSE /\ body = <<>>
            /\ bus' = [bus EXCEPT !.k = @ + 1]
    /\ Rest

\* forEach returns
forEachEnd ==
    /\ bus.running
    /\ bus.k >= bus.len
    /\ bus' = [bus EXCEPT !.running = FALSE]
    /\ Rest

\* subscribeToUpdates(callback) whose returned closure the caller keeps:
\* handed lists the closures by the callback they captured, with the number
\* of times each has been called
subscribeKeeping(callback) ==
    /\ ~bus.running
    /\ Len(bus.listeners) < MaxListeners
    /\ Len(bus.handed) < MaxClosures
    /\ bus' = [bus EXCEPT !.listeners = Append(@, callback),
                          !.handed = Append(@, [callback |-> callback, calls |-> 0])]
    /\ Rest

\* A call of the c-th closure handed out, lines 195-199
callClosure(c) ==
    /\ ~bus.running
    /\ c \in 1..Len(bus.handed)
    /\ bus.handed[c].calls < 2
    /\ bus' = [bus EXCEPT !.listeners = Unsubscribed(@, bus.handed[c].callback),
                          !.handed[c].calls = @ + 1]
    /\ Rest

NextClosures ==
    \/ \E callback \in Callbacks : subscribeKeeping(callback)
    \/ \E c \in 1..Len(bus.handed) : callClosure(c)

SpecClosures == Init /\ [][NextClosures]_<<vars, bus>>

InitNotify == Init

NextNotify ==
    \/ \E callback \in Callbacks : subscribeToUpdates(callback)
    \/ \E callback \in Callbacks : unsubscribe(callback)
    \/ notifyListeners
    \/ \E body \in Bodies : forEachStep(body)
    \/ forEachEnd

SpecNotify == InitNotify /\ [][NextNotify]_<<vars, bus>>

\* forEach has gone through every index
Dispatched == bus.running /\ bus.k >= bus.len

----------------------------------------------------------------------------
(* The local mutations with subscribers that may raise during the           *)
(* notification, over a store the sync passes fill                          *)

NextMutate ==
    \/ Tick /\ Frame
    \/ SyncStep /\ Frame
    \/ ResumeStep /\ Frame
    \/ \E raises \in BOOLEAN : createPatientNotifying(PatientData, raises) /\ Frame
    \/ \E id \in CallerIds, updates \in Updates, raises \in BOOLEAN :
          updatePatientNotifying(id, updates, raises) /\ Frame
    \/ \E id \in CallerIds, raises \in BOOLEAN : deletePatientNotifying(id, raises) /\ Frame

SpecMutate == Init /\ [][NextMutate]_vars

----------------------------------------------------------------------------
(* Intake of registry records of every FHIR gender: the sync passes and the *)
(* registry fallback of getPatientById over a registry that also holds      *)
(* FhirP2, whose gender is 'unknown'                                        *)

IntakeResponses ==
    {[ok |-> FALSE, entries |-> <<>>]}
    \cup {[ok |-> TRUE, entries |-> e] :
             e \in SeqsUpTo({FhirP1, FhirP2, FhirNoId}, PageLimit)}

NextIntake ==
    \/ Tick /\ Frame
    \/ Timer /\ Frame
    \/ getPatients /\ Frame
    \/ \E c \in 1..Len(syncs), resp \in IntakeResponses : SearchResponse(c, resp) /\ Frame
    \/ ResumeStep /\ Frame
    \/ \E id \in {"p1", "p2"} : getPatientById(id) /\ Frame
    \/ \E g \in 1..Len(gets), raw \in {FhirP1, FhirP2, NullResponse} :
          GetFhirResponse(g, raw) /\ Frame
    \/ \E id \in {"p1", "p2"} : deletePatient(id) /\ Frame

SpecIntake == Init /\ [][NextIntake]_vars

----------------------------------------------------------------------------
(* The registry client of src/unnamed/part_000: the axios instance api with *)
(* its interceptors (lines 136-170), searchPatients, getPatientById and     *)
(* setAuthToken, and the setAuthToken of the patient service                *)
(* (authService.ts 383-390). In wire, stored is localStorage's 'token'      *)
(* and header is api.defaults.headers.common.Authorization without its      *)
(* 'Bearer ' prefix; "" stands for an absent item or header, which is also  *)
(* what an empty token amounts to in `if (token)`.                          *)

Tokens == {"t1", "t2"}

\* string | null
TokenArgs == Tokens \cup {"null"}

Truthy(token) == token # "null" /\ token # ""

\* How a GET on api can end: no response, an error status, or a 2xx body
\* (a bundle without entries, with entries, with an entry that has no
\* resource, with an entry field that is no array; or no body at all)
Bundles ==
    {[total |-> 0],
     [entry |-> <<[resource |-> FhirP1]>>, total |-> 1],
     [entry |-> <<[resource |-> FhirP1], [fullUrl |-> "x"]>>],
     [entry |-> <<>>, entryIsObject |-> TRUE, total |-> 2]}

ApiResponses(bodies) ==
    {[kind |-> "network"]}
        \cup {[kind |-> "status", status |-> st] : st \in {401, 404, 500}}
        \cup {[kind |-> "ok", data |-> d] : d \in bodies \cup {Undefined}}

Failed(response) == response.kind # "ok"

\* Request interceptor, lines 146-153, over the defaults axios merges in
SentHeader(stored, header) == IF stored # "" THEN stored ELSE header

\* Response interceptor, lines 160-170: a 401 removes the stored token
StoredAfter(stored, response) ==
    IF response.kind = "status" /\ response.status = 401 THEN "" ELSE stored

\* Mutant: the catch block logs and throws again
CaughtSearchRethrown(response) == [raised |-> TRUE]

\* catch of searchPatients, lines 222-225
CaughtSearch(response) == [raised |-> FALSE, patients |-> <<>>, total |-> 0]

\* searchPatients lines 199-226: everything runs inside the try block
searchPatientsReturn(response) ==
    IF Failed(response) THEN CaughtSearch(response)
    ELSE IF IsUndefined(response.data) THEN CaughtSearch(response)
    ELSE IF Has(response.data, "entryIsObject")
         THEN CaughtSearch(response)       \* entry.map is not a function
    ELSE [raised   |-> FALSE,
          patients |-> IF Has(response.data, "entry")
                       THEN [i \in 1..Len(response.data.entry) |->
                               IF Has(response.data.entry[i], "resource")
                               THEN response.data.entry[i].resource ELSE Undefined]
                       ELSE <<>>,
          total    |-> IF Has(response.data, "total") THEN response.data.total ELSE 0]

\* catch of getPatientById, lines 232-235
CaughtGet(response) == [raised |-> FALSE, patient |-> NullResponse]

\* getPatientById lines 228-236
getFhirPatientReturn(response) ==
    IF Failed(response) THEN CaughtGet(response)
    ELSE [raised |-> FALSE, patient |-> response.data]

Others == UNCHANGED <<vars, lastMerged, listQ, bus, removed>>

\* setAuthToken of the patient service, authService.ts 384-390
setAuthToken(token) ==
    /\ wire' = [wire EXCEPT !.stored = IF Truthy(token) THEN token ELSE "",
                            !.armed = token, !.op = "setAuthToken"]
    /\ Others

\* setAuthToken of the registry client, part_000 254-262
fhirSetAuthToken(token) ==
    /\ wire' = [wire EXCEPT !.stored = IF Truthy(token) THEN token ELSE "",
                            !.header = IF Truthy(token) THEN token ELSE "",
                            !.armed = token, !.op = "setAuthToken"]
    /\ Others

\* A call searchPatients(...) with its request and the response to it
SearchCall(response) ==
    /\ wire' = [wire EXCEPT !.op = "search",
                            !.sent = SentHeader(wire.stored, wire.header),
                            !.stored = StoredAfter(@, response),
                            !.result = searchPatientsReturn(response)]
    /\ Others

\* A call getPatientById(id) of the client with its request and response
GetCall(response) ==
    /\ wire' = [wire EXCEPT !.op = "get",
                            !.sent = SentHeader(wire.stored, wire.header),
                            !.stored = StoredAfter(@, response),
                            !.result = getFhirPatientReturn(response)]
    /\ Others

InitClient == Init

NextClient ==
    \/ \E token \in TokenArgs : fhirSetAuthToken(token)
    \/ \E token \in TokenArgs : setAuthToken(token)
    \/ \E response \in ApiResponses(Bundles) : SearchCall(response)
    \/ \E response \in ApiResponses({FhirP1, FhirP2}) : GetCall(response)

SpecClient == InitClient /\ [][NextClient]_<<vars, wire>>

----------------------------------------------------------------------------
(* Claims *)

\* C1: in every reachable state of the store no two records share the same
\* id, under any interleaving of sync passes, getPatientById (with its
\* registry fallback), createPatient, updatePatient and deletePatient.
C1_UniqueIds ==
    \A i, j \in 1..Len(inMemoryPatients) :
        inMemoryPatients[i].id = inMemoryPatients[j].id => i = j

\* C2: when a sync pass receives exactly PageLimit records for page p < 10
\* (and normalises them without failure), the step that handles the response
\* leaves a search request for page p + 1 outstanding in the same pass.
C2_FullPageRequestsNextPage ==
    [][\A c \in 1..Len(syncs) :
          ( /\ last'.op = "searchResponse"
            /\ last'.result = "full"
            /\ TopAt(c, "search")
            /\ TopPage(c) < MaxPage
            /\ Len(syncs') = Len(syncs)
            /\ syncs'[c] # syncs[c] )
          => \E i \in 1..Len(syncs'[c].frames) :
                /\ syncs'[c].frames[i].page = TopPage(c) + 1
                /\ syncs'[c].frames[i].pc = "search"]_vars

\* C3: after process start isInitialSyncDone eventually becomes true, given
\* that every registry request eventually returns or fails.
C3_InitialSyncEventuallyDone == <>isInitialSyncDone

\* C4: syncWithFhir invoked while isSyncing is true (the timer's call, made
\* once isInitialSyncDone holds) is a no-op: no registry request is issued,
\* no notification fired, the store and both flags are unchanged, and the
\* pass in flight stays as it is.
C4_GuardedCallIsNoOp ==
    [][(last'.op = "timer" /\ isSyncing /\ isInitialSyncDone)
          => /\ inMemoryPatients' = inMemoryPatients
             /\ isSyncing' = isSyncing
             /\ isInitialSyncDone' = isInitialSyncDone
             /\ syncs' = syncs
             /\ gets' = gets
             /\ notes' = 0]_vars

\* C4 witness: the timer has called syncWithFhir while a pass was in flight
C4_Witness ==
    /\ last.op = "timer"
    /\ last.call = "guard"
    /\ Len(syncs) = 1
    /\ isSyncing

\* C5: at most one sync pass is past the guard and at most one registry
\* search request is outstanding, whatever the startup call, the timer and
\* the on-demand calls of getPatients do.
C5_AtMostOnePass ==
    /\ Len(syncs) <= 1
    /\ Cardinality(Outstanding) <= 1

\* C5 witness: an on-demand pass started by getPatients is in flight, after
\* the startup pass has ended
C5_Witness ==
    /\ last.op = "getPatients"
    /\ last.call = "started"
    /\ Cardinality(Outstanding) = 1

\* C6: whenever no sync pass is in flight (every pass that got past the
\* guard has ended, by success or by failure), isSyncing is false.
C6_FlagReleased == (syncs = <<>>) => ~isSyncing

\* C6 witness: a pass has just ended by a failure of the normalisation
C6_Witness ==
    /\ last.op = "searchResponse"
    /\ last.result = "threw"
    /\ syncs = <<>>

C8_LocalPrecedence ==
    [][last'.op = "searchResponse"
          => /\ Len(inMemoryPatients') >= Len(inMemoryPatients)
             /\ \A i \in 1..Len(inMemoryPatients) :
                   inMemoryPatients'[i] = inMemoryPatients[i]]_vars

\* C8 witness: the record p1 came from a sync (createdAt is the registry's
\* lastUpdated), was updated locally, and a later pass has merged a page
\* made of p1 only
C8_Witness ==
    /\ last.op = "searchResponse"
    /\ last.result \in {"merged", "full"}
    /\ Len(inMemoryPatients) = 1
    /\ inMemoryPatients[1].id = "p1"
    /\ Has(inMemoryPatients[1], "createdAt")
    /\ inMemoryPatients[1].firstName = <<"B">>

\* C9: a sync pass that merges the page the previous merge received, the
\* store unchanged in between, leaves the store as it is.
C9_IdempotentMerge ==
    [][( /\ last'.op = "searchResponse"
         /\ last'.result \in {"merged", "full"}
         /\ lastMerged.valid
         /\ lastMerged'.entries = lastMerged.entries )
          => inMemoryPatients' = inMemoryPatients]_vars

\* C10: for any filter and any limit > 0, with the store unchanged between
\* the calls, the concatenation of the pages 1..ceil(total / limit) of
\* getPatients is exactly the filtered store, in store order.
C10_PaginationConsistency ==
    WalkDone => listQ.acc = ApplyFilters(inMemoryPatients, listQ.filters)

\* C10 witness: a finished walk of several pages under a name filter that
\* left some record out
C10_Witness ==
    /\ WalkDone
    /\ listQ.page > 2
    /\ listQ.filters.name # <<>>
    /\ Len(listQ.acc) >= 2
    /\ Len(listQ.acc) < Len(inMemoryPatients)

\* C11: getPatients returns total equal to the number of records that pass
\* the filter, whatever page and limit are, and for page >= 1 and limit >= 1
\* it returns the records at positions (page-1)*limit+1 .. page*limit of the
\* filtered set.
C11_TotalAndPage ==
    listQ.active =>
        LET filtered == ApplyFilters(inMemoryPatients, listQ.filters)
            count    == Cardinality({i \in 1..Len(inMemoryPatients) :
                                        Passes(inMemoryPatients[i], listQ.filters)})
            first    == (listQ.page - 1) * listQ.limit + 1
            held     == {i \in first..(listQ.page * listQ.limit) : i <= Len(filtered)}
        IN  /\ listQ.total = count
            /\ (listQ.page >= 1 /\ listQ.limit >= 1) =>
                   listQ.acc = [k \in 1..Cardinality(held) |-> filtered[first + k - 1]]

\* A call for page 2 of a gender filter that two of three records pass
C11_Witness ==
    /\ listQ.active
    /\ listQ.page = 2 /\ listQ.limit = 1
    /\ listQ.filters.gender # ""
    /\ Len(inMemoryPatients) = 3
    /\ listQ.total = 2
    /\ Len(listQ.acc) = 1

\* C12: getPatients(filters) returns exactly the stored records that satisfy
\* every supplied predicate (name substring, gender, date of birth, creation
\* timestamp at or after createdAfter): with createdAfter = T no returned
\* record lacks a creation timestamp at or after T.
C12_FilterExact ==
    (listQ.active /\ listQ.page = 0) =>
        LET f == listQ.filters
            Satisfies(r) ==
                /\ f.name # <<>> => NameMatches(r, f.name)
                /\ f.gender # "" => r.gender = f.gender
                /\ f.birthDate # "" => r.dateOfBirth = f.birthDate
                /\ Has(f, "createdAfter") =>
                       (Has(r, "createdAt") /\ r.createdAt >= f.createdAfter)
        IN  listQ.acc = SelectSeq(inMemoryPatients, Satisfies)

\* C13: updatePatient(id, updates) with an id absent from the store fails
\* with the not-found failure reported to the caller, leaves the store
\* unchanged and fires no notification.
C13_UpdateMissingNotFound ==
    [][ \A id \in CallerIds, updates \in Updates :
          ( ~HasId(inMemoryPatients, id) /\ updatePatient(id, updates) /\ Frame )
          => ( /\ last'.result = ThrownInUpdate
               /\ inMemoryPatients' = inMemoryPatients
               /\ notes' = 0 ) ]_vars

\* C14: updatePatient(id, updates) on a present id replaces that one record
\* by the old record overlaid with updates, its id kept equal to the id
\* argument even when updates carries another id; position, the other
\* records and the store size are unchanged and one notification is fired.
C14_UpdateOverlay ==
    [][ \A id \in CallerIds, updates \in Updates :
          ( HasId(inMemoryPatients, id) /\ updatePatient(id, updates) /\ Frame )
          => ( /\ Len(inMemoryPatients') = Len(inMemoryPatients)
               /\ notes' = 1
               /\ last'.result = "ok"
               /\ \E i \in 1..Len(inMemoryPatients) :
                     LET old == inMemoryPatients[i]
                         new == inMemoryPatients'[i]
                     IN  /\ old.id = id
                         /\ new.id = id
                         /\ DOMAIN new = DOMAIN old \cup DOMAIN updates
                         /\ \A f \in DOMAIN updates \ {"id"} : new[f] = updates[f]
                         /\ \A f \in DOMAIN old \ DOMAIN updates : new[f] = old[f]
                         /\ \A j \in 1..Len(inMemoryPatients) :
                               j # i => inMemoryPatients'[j] = inMemoryPatients[j] ) ]_vars

\* An update has overlaid record p1 of a two-record store with a payload
\* that carries id p2
C14_Witness ==
    /\ last.op = "updatePatient"
    /\ last.result = "ok"
    /\ Len(inMemoryPatients) = 2
    /\ \E i \in 1..Len(inMemoryPatients) :
          /\ inMemoryPatients[i].id = "p1"
          /\ inMemoryPatients[i].firstName = <<"B">>
    /\ \A updates \in Updates : updates.id # "p1"

\* C15: createPatient followed by deletePatient of the id the create
\* returned leaves the store with as many records as before the create, and
\* two notifications are fired, the create's before the delete's.
C15_CreateThenDelete ==
    [][ ( last.op = "createPatient" /\ deletePatient(LocalId(now)) /\ Frame )
        => ( /\ Len(inMemoryPatients') = Len(inMemoryPatients) - 1
             /\ notes = 1
             /\ notes' = 1 ) ]_vars

C18_EverySubscriberInvoked ==
    Dispatched => (bus.atStart \ bus.removed) \subseteq bus.called

C20_PassNotifies ==
    [][ Len(syncs') < Len(syncs) => notes' >= 1 ]_vars

C22_ClientNeverRaises ==
    [][ /\ \A response \in ApiResponses(Bundles) :
              SearchCall(response) =>
                 ( /\ ~wire'.result.raised
                   /\ Failed(response) =>
                         (wire'.result.patients = <<>> /\ wire'.result.total = 0) )
        /\ \A response \in ApiResponses({FhirP1, FhirP2}) :
              GetCall(response) =>
                 ( /\ ~wire'.result.raised
                   /\ Failed(response) => wire'.result.patient = NullResponse ) ]_<<vars, wire>>

\* A search has ended in an error status and returned the empty result
C22_Witness ==
    /\ wire.op = "search"
    /\ wire.result = [raised |-> FALSE, patients |-> <<>>, total |-> 0]
    /\ wire.armed \in Tokens
    /\ wire.stored = ""

\* C26: after setAuthToken(t) with a non-null token every later registry
\* request carries Authorization: Bearer t, and after setAuthToken(null) no
\* later registry request carries an Authorization header, until a token is
\* supplied again.
C26_HeaderFollowsToken ==
    [][ wire'.op \in {"search", "get"} =>
          ( /\ wire.armed \in Tokens => wire'.sent = wire.armed
            /\ wire.armed = "null" => wire'.sent = "" ) ]_<<vars, wire>>

\* C23: a failure of the registry call or of normalization/merge during an
\* initial sync pass never escapes syncWithFhir: the pass ends normally with
\* isInitialSyncDone = TRUE and a notification fired, and the records
\* already in the store stay in place.
C23_InitialFailureAbsorbed ==
    [][ \A resp \in SearchResponses :
          ( /\ Len(syncs) = 1 /\ syncs[1].isInitial
            /\ ~resp.ok \/ (\E i \in 1..Len(resp.entries) : IsUndefined(resp.entries[i]))
            /\ SearchResponse(1, resp) /\ Frame )
          => ( /\ isInitialSyncDone'
               /\ notes' = 1
               /\ inMemoryPatients' = inMemoryPatients
               /\ syncs' = <<>>
               /\ ~isSyncing' ) ]_vars

\* An initial pass has ended in the catch block over a store that a local
\* create had filled
C23_Witness ==
    /\ last.op = "searchResponse"
    /\ last.result = "threw"
    /\ isInitialSyncDone
    /\ notes = 1
    /\ syncs = <<>>
    /\ inMemoryPatients # <<>>

\* C24: the 30-second timer starts a sync pass only in states where
\* isInitialSyncDone is true, and the passes it starts are non-initial: they
\* never change isInitialSyncDone.
C24_TimerPassesNonInitial ==
    [][ /\ (Timer /\ Frame /\ syncs' # syncs) =>
              ( /\ isInitialSyncDone
                /\ Len(syncs') = Len(syncs) + 1
                /\ ~syncs'[Len(syncs')].isInitial
                /\ isInitialSyncDone' = isInitialSyncDone )
        /\ (Timer /\ Frame /\ ~isInitialSyncDone) =>
              UNCHANGED <<syncs, isSyncing, inMemoryPatients, isInitialSyncDone>>
        /\ (last'.op \in {"searchResponse", "resume"} /\ Len(syncs) = 1
               /\ ~syncs[1].isInitial) =>
              isInitialSyncDone' = isInitialSyncDone ]_vars

\* The timer has started a pass, and it is a non-initial one
C24_Witness ==
    /\ last.op = "timer"
    /\ last.call = "started"
    /\ isInitialSyncDone
    /\ Len(syncs) = 1
    /\ ~syncs[1].isInitial

\* C25: every record in the store has gender in {male, female, other}:
\* normalization of a raw registry record, by a sync pass or by the registry
\* fallback of getPatientById, maps every other upstream value, 'unknown'
\* and a missing gender included, to 'other'.
C25_GenderEnumeration ==
    \A i \in 1..Len(inMemoryPatients) :
        inMemoryPatients[i].gender \in {"male", "female", "other"}

\* C27: local mutations made while a sync pass's registry request is
\* outstanding are not lost by the merge: a record created or updated
\* locally between the request and its response is present with its local
\* field values after the pass has merged its page.
C27_LocalMutationsSurviveMerge ==
    [][ ( /\ last.op \in {"createPatient", "updatePatient"}
          /\ last.result = "ok"
          /\ Outstanding # {}
          /\ last'.op = "searchResponse"
          /\ last'.result \in {"merged", "full"} )
        => ( /\ Len(inMemoryPatients') >= Len(inMemoryPatients)
             /\ \A i \in 1..Len(inMemoryPatients) :
                    inMemoryPatients'[i] = inMemoryPatients[i] ) ]_vars

\* The startup pass has merged a full page behind a record that was created
\* locally while its request was outstanding
C27_Witness ==
    /\ last.op = "searchResponse"
    /\ last.result = "full"
    /\ ~isInitialSyncDone
    /\ Len(inMemoryPatients) = 3
    /\ inMemoryPatients[1] = newPatient(PatientData, 0)
    /\ inMemoryPatients[2].id = "p1"
    /\ inMemoryPatients[3].id = LocalId(1)

\* C28: if createPatient, updatePatient or deletePatient reports a failure
\* to its caller, the store holds exactly the records it held before the
\* call; this includes the case where a subscriber callback raises during
\* the notification.
C28_FailedMutationLeavesStore ==
    [][ ( /\ last'.op \in {"createPatient", "updatePatient", "deletePatient"}
          /\ last'.result # "ok" )
        => inMemoryPatients' = inMemoryPatients ]_vars

\* C29: the unsubscribe function returned by subscribeToUpdates removes only
\* the registration made by that call, and calling it a second time changes
\* nothing, also when the same callback has been subscribed more than once.
C29_UnsubscribeOnce ==
    [][ \A c \in 1..Len(bus.handed) :
          callClosure(c) =>
             IF bus.handed[c].calls = 0
             THEN /\ Len(bus'.listeners) = Len(bus.listeners) - 1
                  /\ \A cb \in Callbacks \ {bus.handed[c].callback} :
                        SelectSeq(bus'.listeners, LAMBDA x : x = cb)
                           = SelectSeq(bus.listeners, LAMBDA x : x = cb)
             ELSE bus'.listeners = bus.listeners ]_<<vars, bus>>

\* The sync passes and deletePatient, with the history variable removed kept
deleteRecorded(id) ==
    /\ deletePatient(id)
    /\ removed' = IF HasId(inMemoryPatients, id) THEN removed \cup {id} ELSE removed
    /\ UNCHANGED <<lastMerged, listQ, bus, wire>>

NextReturn ==
    \/ Tick /\ Frame
    \/ Timer /\ Frame
    \/ SyncStep /\ Frame
    \/ ResumeStep /\ Frame
    \/ \E id \in CallerIds : deleteRecorded(id)

SpecReturn == Init /\ [][NextReturn]_<<vars, removed>>

====
